---- MODULE Spec2Model ----
(***************************************************************************)
(* Model of src/video_to_mesh.py: sample_video_frames (the frame sampler)  *)
(* and run_hamer_on_video (the inference and serialization driver).        *)
(*                                                                         *)
(* A video is described by whether it can be opened, its number of         *)
(* decodable frames and the frame rate the container reports.  The source  *)
(* frame at position i is <<"bgr", i>>; cv2.cvtColor turns it into         *)
(* <<"rgb", i>>.  The hand-mesh model is an external collaborator: a       *)
(* forward pass either raises or returns a dictionary whose entry for key  *)
(* k is <<k, frame>>; which keys it holds is the environment's choice.     *)
(***************************************************************************)
EXTENDS Integers, Sequences, FiniteSets, TLC

\* Bounds of the explored inputs.
MaxFrames == 3
MaxFps == 5
MaxFpsSample == 3

\* The example of the specification: 10 seconds at 30 fps, fps_sample = 2.
ExampleInput == [opened |-> TRUE, nframes |-> 300, fps |-> 30, fps_sample |-> 2]

\* fps_sample is any integer the caller passes (argparse type=int): zero and
\* negative values are accepted by the code.
SmallInputs ==
  [opened : BOOLEAN, nframes : 0..MaxFrames, fps : 0..MaxFps,
   fps_sample : (-MaxFpsSample)..MaxFpsSample]

VARIABLES
  input,          \* the video behind video_path, and fps_sample
  pc,             \* position of the single thread of control
  err,            \* the step that raised, "none" while running
  dirMade,        \* os.makedirs(output_dir) has succeeded
  cap,            \* capture handle: "none", "open", "unopened", "released"
  fpsRead,        \* cap.get(CAP_PROP_FPS) has been called
  reads,          \* number of cap.read() calls
  interval,       \* sample_video_frames.interval
  idx,            \* sample_video_frames.idx
  frames,         \* sample_video_frames.frames / run_hamer_on_video.frames
  frame_indices,  \* sample_video_frames.frame_indices
  modelLoaded,    \* load_hamer has returned
  k,              \* number of completed iterations of the inference loop
  passes,         \* images handed to model(batch), in call order
  outs,           \* dictionaries returned by model(batch), in call order
  all_vertices,   \* run_hamer_on_video.all_vertices
  all_cameras,    \* run_hamer_on_video.all_cameras
  archive         \* the archives written to out_path, in write order

vars == <<input, pc, err, dirMade, cap, fpsRead, reads, interval, idx, frames,
          frame_indices, modelLoaded, k, passes, outs, all_vertices,
          all_cameras, archive>>

samplerVars == <<cap, fpsRead, reads, interval, idx, frames, frame_indices>>
driverVars == <<modelLoaded, k, passes, outs, all_vertices, all_cameras, archive>>

----------------------------------------------------------------------------
\* Pure helpers

Abs(x) == IF x < 0 THEN -x ELSE x

Sign(x) == IF x < 0 THEN -1 ELSE 1

\* Python's round() on the quotient num / den (den # 0): nearest integer,
\* ties to the even neighbour; symmetric about 0, and int(round(-0.0)) is 0.
RoundHalfEven(num, den) ==
  LET n == Abs(num)
      d == Abs(den)
      f == n \div d
      r == n - f * d
      m == IF 2 * r < d THEN f
           ELSE IF 2 * r > d THEN f + 1
           ELSE IF f % 2 = 0 THEN f ELSE f + 1
  IN  Sign(num) * Sign(den) * m

\* interval = int(round(fps / fps_sample)), for fps_sample # 0
\* Variant: the quotient truncated toward zero instead of rounded.
StrideTrunc(fps, fps_sample) ==
  Sign(fps) * Sign(fps_sample) * (Abs(fps) \div Abs(fps_sample))

Stride(fps, fps_sample) == RoundHalfEven(fps, fps_sample)

\* Python's a % b for a >= 0 and b # 0 (the result takes the sign of b).
PyMod(a, b) ==
  IF b > 0 THEN a % b
  ELSE LET r == a % (-b) IN IF r = 0 THEN 0 ELSE r + b

\* idx % interval == 0
\* Variant: the last frame of each stride kept instead of the first.
SelectedOffByOne(i, iv) == PyMod(i, iv) = iv - Sign(iv)

Selected(i, iv) == PyMod(i, iv) = 0

\* ret of cap.read(): the decoder delivers frames 0 .. nframes-1, then fails;
\* a capture that is not opened delivers nothing.
ReadOk(i) == input.opened /\ i < input.nframes

SourceFrame(i) == <<"bgr", i>>

\* cv2.cvtColor(frame, cv2.COLOR_BGR2RGB)
CvtColor(frame) == <<"rgb", frame[2]>>

\* cv2.resize, torch.from_numpy(...).permute.float / 255, unsqueeze, to(device)
Preprocess(frame) == <<"img", frame[2]>>

\* The keys a model output may hold.
Keys == {"vertices", "pred_vertices", "pred_cam"}

\* out[key] ... .detach().cpu().numpy()[0]
Lookup(out, key) == <<key, out.img[2]>>

\* if "vertices" in out: out["vertices"] else: out["pred_vertices"]
\* Variant: pred_vertices preferred when both keys are present.
VertsKeyPredFirst(out) ==
  IF "pred_vertices" \in out.keys THEN "pred_vertices" ELSE "vertices"

VertsKey(out) ==
  IF "vertices" \in out.keys THEN "vertices" ELSE "pred_vertices"

\* The dictionary lookups of one iteration raise KeyError.
KeyError(out) == VertsKey(out) \notin out.keys \/ "pred_cam" \notin out.keys

\* all_vertices.append(verts)
\* Variant: the newest vertices inserted at the front.
AccumulateVertsFront(av, verts) == <<verts>> \o av

AccumulateVerts(av, verts) == Append(av, verts)

\* all_cameras.append(cam)
\* Variant: only the newest camera kept.
AccumulateCamLatest(ac, cam) == <<cam>>

AccumulateCam(ac, cam) == Append(ac, cam)

\* model.mano.faces
Faces == "mano_faces"

----------------------------------------------------------------------------
\* State after the arguments are bound, before the first statement.

InitCommon ==
  /\ err = "none"
  /\ dirMade = FALSE
  /\ cap = "none"
  /\ fpsRead = FALSE
  /\ reads = 0
  /\ interval = 0
  /\ idx = 0
  /\ frames = <<>>
  /\ frame_indices = <<>>
  /\ modelLoaded = FALSE
  /\ k = 0
  /\ passes = <<>>
  /\ outs = <<>>
  /\ all_vertices = <<>>
  /\ all_cameras = <<>>
  /\ archive = <<>>

\* run_hamer_on_video(video_path, output_dir, fps_sample, device)
Init ==
  /\ input \in SmallInputs
  /\ pc = "makedirs"
  /\ InitCommon

\* sample_video_frames(video_path, fps_sample) called on its own
InitSampler ==
  /\ input \in SmallInputs \cup {ExampleInput}
  /\ pc = "open"
  /\ InitCommon

----------------------------------------------------------------------------
\* sample_video_frames

\* cap = cv2.VideoCapture(video_path); if not cap.isOpened(): raise ValueError
\* Variant: the isOpened() test left out.
OpenNoCheck ==
  /\ pc = "open"
  /\ cap' = IF input.opened THEN "open" ELSE "unopened"
  /\ pc' = "fps"
  /\ UNCHANGED <<input, err, dirMade, fpsRead, reads, interval, idx, frames,
                 frame_indices>>
  /\ UNCHANGED driverVars

Open ==
  /\ pc = "open"
  /\ cap' = IF input.opened THEN "open" ELSE "unopened"
  /\ IF input.opened
       THEN pc' = "fps" /\ err' = err
       ELSE pc' = "failed" /\ err' = "open"
  /\ UNCHANGED <<input, dirMade, fpsRead, reads, interval, idx, frames,
                 frame_indices>>
  /\ UNCHANGED driverVars

\* fps = cap.get(CAP_PROP_FPS); interval = int(round(fps / fps_sample));
\* frames = []; frame_indices = []; idx = 0.  The float division raises
\* ZeroDivisionError when fps_sample is 0, before anything else is bound.
ReadFps ==
  /\ pc = "fps"
  /\ fpsRead' = TRUE
  /\ IF input.fps_sample = 0
       THEN /\ pc' = "failed"
            /\ err' = "fpsdiv"
            /\ UNCHANGED <<interval, frames, frame_indices, idx>>
       ELSE /\ interval' = Stride(input.fps, input.fps_sample)
            /\ frames' = <<>>
            /\ frame_indices' = <<>>
            /\ idx' = 0
            /\ pc' = "loop"
            /\ err' = err
  /\ UNCHANGED <<input, dirMade, cap, reads>>
  /\ UNCHANGED driverVars

\* One iteration of `while True` whose read succeeds: the frame is kept when
\* idx % interval == 0; the modulo raises ZeroDivisionError when interval is 0.
Decode ==
  /\ pc = "loop"
  /\ ReadOk(idx)
  /\ reads' = reads + 1
  /\ IF interval = 0
       THEN /\ pc' = "failed"
            /\ err' = "zerodiv"
            /\ UNCHANGED <<frames, frame_indices, idx>>
       ELSE /\ IF Selected(idx, interval)
                 THEN /\ frames' = Append(frames, CvtColor(SourceFrame(idx)))
                      /\ frame_indices' = Append(frame_indices, idx)
                 ELSE UNCHANGED <<frames, frame_indices>>
            /\ idx' = idx + 1
            /\ UNCHANGED <<pc, err>>
  /\ UNCHANGED <<input, dirMade, cap, fpsRead, interval>>
  /\ UNCHANGED driverVars

\* The iteration whose read fails: break; cap.release(); return
EndOfStream ==
  /\ pc = "loop"
  /\ ~ReadOk(idx)
  /\ reads' = reads + 1
  /\ cap' = "released"
  /\ pc' = "sampled"
  /\ UNCHANGED <<input, err, dirMade, fpsRead, interval, idx, frames,
                 frame_indices>>
  /\ UNCHANGED driverVars

----------------------------------------------------------------------------
\* run_hamer_on_video

\* os.makedirs(output_dir, exist_ok=True); out_path = ...
MakeDirs ==
  /\ pc = "makedirs"
  /\ \E ok \in BOOLEAN :
       IF ok THEN dirMade' = TRUE /\ pc' = "open" /\ err' = err
             ELSE dirMade' = FALSE /\ pc' = "failed" /\ err' = "makedirs"
  /\ UNCHANGED input
  /\ UNCHANGED samplerVars
  /\ UNCHANGED driverVars

\* load_hamer(checkpoint_path); model.to(device); model.eval();
\* all_vertices, all_cameras = [], []; faces = model.mano.faces
LoadModel ==
  /\ pc = "sampled"
  /\ \E r \in {"ok", "load", "device"} :
       /\ modelLoaded' = (r # "load")
       /\ IF r = "ok" THEN pc' = "infer" /\ err' = err
                      ELSE pc' = "failed" /\ err' = r
  /\ all_vertices' = <<>>
  /\ all_cameras' = <<>>
  /\ UNCHANGED <<input, dirMade, k, passes, outs, archive>>
  /\ UNCHANGED samplerVars

\* One iteration of `for frame in tqdm(frames)`: the forward pass raises, or
\* returns a dictionary whose lookups raise KeyError, or both results are
\* appended.
Infer ==
  /\ pc = "infer"
  /\ k < Len(frames)
  /\ \E fwd \in BOOLEAN, keys \in SUBSET Keys :
       LET img == Preprocess(frames[k + 1])
           out == [keys |-> keys, img |-> img]
       IN  /\ passes' = Append(passes, img)
           /\ IF ~fwd
                THEN /\ pc' = "failed"
                     /\ err' = "forward"
                     /\ UNCHANGED <<outs, all_vertices, all_cameras, k>>
                ELSE /\ outs' = Append(outs, out)
                     /\ IF KeyError(out)
                          THEN /\ pc' = "failed"
                               /\ err' = "keyerror"
                               /\ UNCHANGED <<all_vertices, all_cameras, k>>
                          ELSE /\ all_vertices' =
                                    AccumulateVerts(all_vertices,
                                                    Lookup(out, VertsKey(out)))
                               /\ all_cameras' =
                                    AccumulateCam(all_cameras,
                                                  Lookup(out, "pred_cam"))
                               /\ k' = k + 1
                               /\ UNCHANGED <<pc, err>>
  /\ UNCHANGED <<input, dirMade, modelLoaded, archive>>
  /\ UNCHANGED samplerVars

\* np.savez_compressed(out_path, vertices=..., faces=..., cameras=...,
\* frame_indices=...); return out_path
Written ==
  [vertices |-> all_vertices, faces |-> Faces, cameras |-> all_cameras,
   frame_indices |-> frame_indices]

\* Variant: the archive rewritten after every frame.
SaveEveryFrame ==
  /\ pc = "infer"
  /\ Len(archive) <= k
  /\ archive' = Append(archive, Written)
  /\ pc' = IF k = Len(frames) THEN "done" ELSE pc
  /\ UNCHANGED <<input, err, dirMade, modelLoaded, k, passes, outs,
                 all_vertices, all_cameras>>
  /\ UNCHANGED samplerVars

Save ==
  /\ pc = "infer"
  /\ k = Len(frames)
  /\ archive' = Append(archive, Written)
  /\ pc' = "done"
  /\ UNCHANGED <<input, err, dirMade, modelLoaded, k, passes, outs,
                 all_vertices, all_cameras>>
  /\ UNCHANGED samplerVars

Next ==
  MakeDirs \/ Open \/ ReadFps \/ Decode \/ EndOfStream \/ LoadModel \/ Infer
    \/ Save

Spec == Init /\ [][Next]_vars

NextSampler == Open \/ ReadFps \/ Decode \/ EndOfStream

SpecSampler == InitSampler /\ [][NextSampler]_vars

----------------------------------------------------------------------------
\* Properties

Exited == pc \in {"sampled", "failed"}

StrictlyIncreasing(s) == \A i, j \in 1..Len(s) : i < j => s[i] < s[j]

\* C1: the two sequences of the sampler always have the same length, the two
\* accumulators of the inference loop always have the same length, and every
\* archive written has vertices, cameras and frame_indices of the length of
\* the sampled frames.
C1_AlignedLengths ==
  /\ Len(frames) = Len(frame_indices)
  /\ Len(all_vertices) = Len(all_cameras)
  /\ \A a \in 1..Len(archive) :
       /\ Len(archive[a].vertices) = Len(frames)
       /\ Len(archive[a].cameras) = Len(frames)
       /\ Len(archive[a].frame_indices) = Len(frames)

C1_Witness ==
  /\ pc = "done"
  /\ Len(archive) = 1
  /\ Len(archive[1].vertices) >= 2
  /\ Len(frames) < input.nframes

\* C2: for a video with at least one decodable frame, the frame_indices the
\* sampler returns start at 0, increase strictly, are multiples of the
\* computed stride and are smaller than the number of decoded frames; the
\* part built so far has the last three properties after every iteration.
C2_IndicesShape ==
  (pc \in {"loop", "sampled"} /\ input.nframes >= 1) =>
    /\ StrictlyIncreasing(frame_indices)
    /\ \A j \in 1..Len(frame_indices) :
         /\ frame_indices[j] < idx
         /\ idx <= input.nframes
         /\ \E m \in (-input.nframes)..input.nframes :
              frame_indices[j] = m * interval
    /\ interval = Stride(input.fps, input.fps_sample)
    /\ pc = "sampled" => (Len(frame_indices) >= 1 /\ frame_indices[1] = 0)

C2_Witness ==
  /\ pc = "sampled"
  /\ input.fps_sample > 0
  /\ interval >= 2
  /\ Len(frame_indices) >= 2

\* C3: when fps_sample exceeds a (positive) native rate, the stride used in
\* idx % interval is never 0 and sampling raises no ZeroDivisionError.
C3_StrideGuarded ==
  (input.fps >= 1 /\ input.fps_sample > input.fps /\ input.nframes >= 1) =>
    /\ err # "zerodiv"
    /\ (pc = "loop" /\ ReadOk(idx)) => interval # 0

\* C4: whenever control has left sample_video_frames, by return or by an
\* exception, the capture handle it created has been released.
C4_ReleasedOnExit == (Exited /\ cap # "none") => cap = "released"

\* C5: a video that opens and has no decodable frame, whatever its frame
\* rate: the sampler raises nothing and returns two empty sequences, the
\* inference loop runs zero iterations, only the environment (directory,
\* model load, device) can stop the run, and a finished run has written
\* exactly one archive whose three per-frame arrays are empty.
C5_EmptyVideo ==
  (input.opened /\ input.nframes = 0) =>
    /\ err \in {"none", "makedirs", "load", "device"}
    /\ frames = <<>> /\ frame_indices = <<>>
    /\ k = 0 /\ passes = <<>> /\ outs = <<>>
    /\ pc = "loop" => ~ReadOk(idx)
    /\ pc = "infer" => (k = Len(frames) /\ archive = <<>>)
    /\ Len(archive) <= 1
    /\ pc = "done" =>
         /\ Len(archive) = 1
         /\ archive[1].vertices = <<>>
         /\ archive[1].cameras = <<>>
         /\ archive[1].frame_indices = <<>>

\* C6: at most one archive is written; it is written only by a run in which
\* sampling, model loading and the forward pass and lookups of every sampled
\* frame succeeded; a failed run has written nothing.
C6_SaveOnlyAfterSuccess ==
  /\ Len(archive) <= 1
  /\ pc = "failed" => archive = <<>>
  /\ Len(archive) = 1 =>
       /\ pc = "done" /\ err = "none"
       /\ dirMade /\ cap = "released" /\ modelLoaded
       /\ k = Len(frames)
       /\ Len(passes) = Len(frames) /\ Len(outs) = Len(frames)
       /\ \A j \in 1..Len(outs) : ~KeyError(outs[j])

\* C6, as a step property: the archive changes only in the step that leaves
\* the finished inference loop.
C6_SaveStep ==
  [][archive' # archive =>
       (pc = "infer" /\ k = Len(frames) /\ pc' = "done" /\ archive = <<>>)]_vars

C6_Witness ==
  /\ pc = "failed"
  /\ err \in {"forward", "keyerror"}
  /\ k >= 1
  /\ archive = <<>>

\* ceil(a / b) for a >= 0 and b # 0
CeilDiv(a, b) == IF b > 0 THEN (a + b - 1) \div b ELSE -(a \div (-b))

\* r is num / den rounded to the nearest integer, a tie going to the even one.
NearestEven(r, num, den) ==
  /\ Abs(2 * num - 2 * r * den) <= Abs(den)
  /\ Abs(2 * num - 2 * r * den) = Abs(den) => Abs(r) % 2 = 0

\* The positions kept are exactly the i in 0..N-1 with i mod stride = 0, in
\* order, each paired with its RGB frame.
RetainedByStride ==
  /\ StrictlyIncreasing(frame_indices)
  /\ Len(frames) = Len(frame_indices)
  /\ \A j \in 1..Len(frames) : frames[j] = <<"rgb", frame_indices[j]>>
  /\ \A j \in 1..Len(frame_indices) :
       frame_indices[j] \in 0..(input.nframes - 1)
  /\ \A i \in 0..(input.nframes - 1) :
       (i % Abs(interval) = 0) <=>
         (\E j \in 1..Len(frame_indices) : frame_indices[j] = i)

\* C7, as claimed: on return from a video of N >= 1 frames the stride is
\* round(fps / fps_sample), the retained positions are exactly the i in
\* 0..N-1 with i mod stride = 0, and their number is ceil(N / stride).
C7_CountCeilOfStride ==
  (pc = "sampled" /\ input.nframes >= 1) =>
    /\ interval # 0
    /\ NearestEven(interval, input.fps, input.fps_sample)
    /\ RetainedByStride
    /\ Len(frame_indices) = CeilDiv(input.nframes, interval)

\* C7, amended: on return the stride is fps / fps_sample rounded to the
\* nearest integer (a tie going to the even one), the retained positions are
\* exactly the i in 0..N-1 with i mod stride = 0, in order, their number is
\* ceil(N / |stride|), and the 300-frame example gives stride 15 and the 20
\* indices 0, 15, ..., 285.
C7_StrideSampling ==
  pc = "sampled" =>
    /\ NearestEven(interval, input.fps, input.fps_sample)
    /\ input.nframes >= 1 =>
         /\ interval # 0
         /\ RetainedByStride
         /\ Len(frame_indices) = CeilDiv(input.nframes, Abs(interval))
    /\ input.nframes = 0 => (frames = <<>> /\ frame_indices = <<>>)
    /\ input = ExampleInput =>
         /\ interval = 15
         /\ frame_indices = [j \in 1..20 |-> 15 * (j - 1)]

C7_Witness ==
  /\ input = ExampleInput
  /\ pc = "sampled"
  /\ Len(frames) = 20
  /\ frame_indices[20] = 285

\* C8: for a video that cannot be opened the run stops at the open step: the
\* frame rate is never read, no frame is decoded, the model is not loaded, no
\* forward pass runs and no archive is written.
C8_UnopenableVideo ==
  ~input.opened =>
    /\ pc \in {"makedirs", "open", "failed"}
    /\ pc = "failed" => err \in {"makedirs", "open"}
    /\ (pc = "failed" /\ cap # "none") => err = "open"
    /\ interval = 0 /\ idx = 0 /\ frames = <<>>
    /\ ~fpsRead /\ reads = 0
    /\ ~modelLoaded /\ passes = <<>> /\ archive = <<>>

C8_Witness ==
  /\ ~input.opened
  /\ input.nframes >= 1
  /\ pc = "failed" /\ err = "open"
  /\ cap = "unopened"

\* C9: the forward passes are made on the sampled frames, once each and in
\* sampled order, and in every archive written position j holds the vertices
\* and the camera of the pass on the j-th sampled frame and that frame's
\* position in the source video.
C9_OrderAndAlignment ==
  /\ Len(passes) <= Len(frames)
  /\ \A j \in 1..Len(passes) : passes[j] = <<"img", frame_indices[j]>>
  /\ \A j \in 1..Len(all_vertices) :
       /\ j <= Len(frame_indices)
       /\ all_vertices[j][2] = frame_indices[j]
       /\ all_cameras[j] = <<"pred_cam", frame_indices[j]>>
  /\ \A a \in 1..Len(archive) :
       /\ archive[a].frame_indices = frame_indices
       /\ Len(passes) = Len(frames)
       /\ Len(archive[a].vertices) = Len(frames)
       /\ \A j \in 1..Len(frames) :
            /\ frames[j] = <<"rgb", frame_indices[j]>>
            /\ archive[a].vertices[j] = Lookup(outs[j], archive[a].vertices[j][1])
            /\ outs[j].img = passes[j]
            /\ archive[a].vertices[j][2] = archive[a].frame_indices[j]
            /\ archive[a].cameras[j] = <<"pred_cam", archive[a].frame_indices[j]>>

C9_Witness ==
  /\ pc = "done"
  /\ Len(archive) = 1
  /\ Len(archive[1].frame_indices) >= 2
  /\ archive[1].frame_indices[2] >= 2

\* C10: each accumulated vertex array comes from key `vertices` when the
\* output holds it and from `pred_vertices` otherwise; an output lacking both
\* vertex keys, or `pred_cam`, stops the run on that frame with nothing
\* appended for it, and it is the last output produced.
C10_KeySelection ==
  /\ \A j \in 1..Len(all_vertices) :
       /\ j <= Len(outs)
       /\ all_vertices[j][1] \in outs[j].keys
       /\ "vertices" \in outs[j].keys => all_vertices[j][1] = "vertices"
       /\ "vertices" \notin outs[j].keys => all_vertices[j][1] = "pred_vertices"
  /\ \A j \in 1..Len(outs) :
       ({"vertices", "pred_vertices"} \cap outs[j].keys = {}
          \/ "pred_cam" \notin outs[j].keys) =>
         /\ j = Len(outs)
         /\ pc = "failed" /\ err = "keyerror"
         /\ Len(all_vertices) = j - 1
         /\ Len(all_cameras) = j - 1
         /\ k = j - 1
         /\ Len(passes) = j
  /\ err = "keyerror" =>
       /\ Len(outs) >= 1
       /\ {"vertices", "pred_vertices"} \cap outs[Len(outs)].keys = {}
            \/ "pred_cam" \notin outs[Len(outs)].keys

C10_Witness ==
  /\ Len(all_vertices) >= 1
  /\ outs[1].keys = Keys
  /\ all_vertices[1][1] = "vertices"
  /\ pc = "failed" /\ err = "keyerror"
  /\ Len(outs) = 2
  /\ outs[2].keys = {"vertices", "pred_vertices"}

====
